---- MODULE Spec2Model ----
\* A model of paddlenlp/taskflow/lexical_analysis.py: the vocabulary loader
\* load_vocab and the LacTask pipeline _preprocess -> _run_model -> _postprocess.
\*
\* A Python str is modelled as a sequence of one-character strings, so that
\* slicing, indexing, split, strip, endswith and concatenation are computed.
EXTENDS Integers, Sequences, FiniteSets, TLC

VARIABLES
    \* ---- load_vocab ----
    fin,          \* the lines of the file being read, each as its raw characters
    lineNo,       \* enumerate's i: the zero-based number of the next line
    vstate,       \* [vocab, reverse]: the locals of load_vocab
    vpc,          \* "reading" | "returned" | "ValueError"
    vret,         \* the vocabulary returned (empty until vpc = "returned")
    \* ---- LacTask ----
    static_arg,   \* the static_mode argument given to __init__
    static_mode,  \* self.static_mode
    loaded,       \* which model __init__ prepared: "inference" | "dygraph"
    kwargs,       \* self.kwargs, a set of <<key, value>> pairs
    arg,          \* the first positional argument of the call
    pc,           \* "ready" | "preprocessed" | "ran" | "done" | "error"
    outputs,      \* the dict handed from stage to stage
    branch,       \* the branch _run_model took: "none" | "dygraph" | "static"
    final_results,\* the list _postprocess returns
    err           \* [type, site] of the exception raised, NoErr if none

vocabVars == <<fin, lineNo, vstate, vpc, vret>>
lacVars == <<static_arg, static_mode, loaded, kwargs, arg, pc, outputs, branch,
             final_results, err>>
vars == <<fin, lineNo, vstate, vpc, vret, static_arg, static_mode, loaded, kwargs,
          arg, pc, outputs, branch, final_results, err>>

\* ------------------------------------------------------------------ bounds
\* load_vocab: at most MaxLines lines of at most MaxFields fields each.
MaxLines == 2
MaxFields == 3
\* LacTask: the size of an input is its number of texts plus its number of
\* characters.
MaxSize == 4

\* --------------------------------------------------------- Python helpers
Min(a, b) == IF a < b THEN a ELSE b

Max(a, b) == IF a < b THEN b ELSE a

\* s[:n] for n >= 0
Prefix(s, n) == SubSeq(s, 1, Min(Len(s), n))

RECURSIVE SplitAcc(_, _, _, _, _)
SplitAcc(s, sep, i, cur, acc) ==
    IF i > Len(s) THEN Append(acc, cur)
    ELSE IF s[i] = sep THEN SplitAcc(s, sep, i + 1, <<>>, Append(acc, cur))
    ELSE SplitAcc(s, sep, i + 1, Append(cur, s[i]), acc)

\* s.split(sep) for a one-character sep: always at least one field
Split(s, sep) == SplitAcc(s, sep, 1, <<>>, <<>>)

RECURSIVE LStrip(_, _)
LStrip(s, ch) == IF s # <<>> /\ Head(s) = ch THEN LStrip(Tail(s), ch) ELSE s

RECURSIVE RStrip(_, _)
RStrip(s, ch) ==
    IF s # <<>> /\ s[Len(s)] = ch THEN RStrip(SubSeq(s, 1, Len(s) - 1), ch) ELSE s

\* s.strip(ch)
Strip(s, ch) == RStrip(LStrip(s, ch), ch)

DigitChars == {"0", "1", "2", "3", "4", "5", "6", "7", "8", "9"}

\* s.isdigit(): at least one character, and every character a digit
IsDigit(s) == s # <<>> /\ \A k \in 1..Len(s) : s[k] \in DigitChars

\* s.endswith(suf)
EndsWith(s, suf) ==
    Len(s) >= Len(suf) /\ SubSeq(s, Len(s) - Len(suf) + 1, Len(s)) = suf

\* A dict is a set of [key, val] entries with at most one entry per key.
DictHas(d, k) == \E e \in d : e.key = k

DictAt(d, k) == (CHOOSE e \in d : e.key = k).val

\* d.get(k, default)
DictGet(d, k, default) == IF DictHas(d, k) THEN DictAt(d, k) ELSE default

\* d[k] = v
DictPut(d, k, v) == {e \in d : e.key # k} \cup {[key |-> k, val |-> v]}

\* A Python value that is a str, an int or None.
StrVal(s) == [t |-> "str", str |-> s, num |-> 0]

IntVal(n) == [t |-> "int", str |-> <<>>, num |-> n]

NoneVal == [t |-> "None", str |-> <<>>, num |-> 0]

\* -------------------------------------------------------------- load_vocab
NoReverse == "None"

VocabStart == [vocab |-> {}, reverse |-> NoReverse, raised |-> FALSE]

\* reverse = True if terms[0].isdigit() else False, only while reverse == None
PyBool(b) == IF b THEN "True" ELSE "False"

DecideReverseEveryLine(reverse, terms) == PyBool(IsDigit(terms[1]))

DecideReverse(reverse, terms) ==
    IF reverse = NoReverse THEN PyBool(IsDigit(terms[1])) ELSE reverse

\* The body of the for loop, for line number i (zero-based) and its raw text.
LoadLine(st, i, line) ==
    LET terms == Split(Strip(line, "\n"), "\t") IN
    IF Len(terms) = 2 THEN
        LET rev == DecideReverse(st.reverse, terms)
            key == IF rev = "True" THEN terms[2] ELSE terms[1]
            value == IF rev = "True" THEN terms[1] ELSE terms[2]
        IN [vocab |-> DictPut(st.vocab, key, StrVal(value)),
            reverse |-> rev, raised |-> FALSE]
    ELSE IF Len(terms) = 1 THEN
        [vocab |-> DictPut(st.vocab, terms[1], IntVal(i)),
         reverse |-> st.reverse, raised |-> FALSE]
    ELSE [vocab |-> st.vocab, reverse |-> st.reverse, raised |-> TRUE]

RECURSIVE LoadFrom(_, _, _)
LoadFrom(st, i, lines) ==
    IF st.raised \/ i >= Len(lines) THEN st
    ELSE LoadFrom(LoadLine(st, i, lines[i + 1]), i + 1, lines)

\* load_vocab(dict_path) on a file that opens and holds these lines
load_vocab(lines) == LoadFrom(VocabStart, 0, lines).vocab

\* ---- the files load_vocab is checked on
FieldSet == {<<"1">>, <<"1", "a">>}

RECURSIVE JoinTab(_)
JoinTab(fields) ==
    IF Len(fields) = 1 THEN fields[1]
    ELSE fields[1] \o <<"\t">> \o JoinTab(Tail(fields))

LineTexts == {JoinTab(f) : f \in UNION {[1..n -> FieldSet] : n \in 1..MaxFields}}

\* Every line of a text file ends with a newline, except possibly the last.
FileOf(body, nl) ==
    [k \in 1..Len(body) |->
        IF k < Len(body) \/ nl THEN body[k] \o <<"\n">> ELSE body[k]]

NoErr == [type |-> "none", site |-> "none"]

NoOutputs == [text |-> <<>>, ds |-> <<>>, batch_size |-> 0, built |-> FALSE,
              result |-> <<>>, lens |-> <<>>]

LacIdle ==
    /\ static_arg = FALSE
    /\ static_mode = FALSE
    /\ loaded = "none"
    /\ kwargs = {}
    /\ arg = [kind |-> "None", elems |-> <<>>]
    /\ pc = "idle"
    /\ outputs = NoOutputs
    /\ branch = "none"
    /\ final_results = <<>>
    /\ err = NoErr

VocabInit ==
    /\ \E n \in 0..MaxLines : \E body \in [1..n -> LineTexts], nl \in BOOLEAN :
            fin = FileOf(body, nl)
    /\ lineNo = 0
    /\ vstate = VocabStart
    /\ vpc = "reading"
    /\ vret = {}
    /\ LacIdle

\* for i, line in enumerate(fin): one iteration
VocabReadLine ==
    /\ vpc = "reading"
    /\ lineNo < Len(fin)
    /\ LET st == LoadLine(vstate, lineNo, fin[lineNo + 1]) IN
        /\ vstate' = st
        /\ vpc' = IF st.raised THEN "ValueError" ELSE "reading"
    /\ lineNo' = lineNo + 1
    /\ UNCHANGED <<fin, vret>>
    /\ UNCHANGED lacVars

\* return vocab
VocabReturn ==
    /\ vpc = "reading"
    /\ lineNo = Len(fin)
    /\ vpc' = "returned"
    /\ vret' = vstate.vocab
    /\ UNCHANGED <<fin, lineNo, vstate>>
    /\ UNCHANGED lacVars

VocabNext == VocabReadLine \/ VocabReturn

SpecVocab == VocabInit /\ [][VocabNext]_vars

\* ----------------------------------------------------------------- LacTask
\* ---- the vocabulary files __init__ loads (word.dic, q2b.dic, tag.dic), which
\* are downloaded: small files of the same layout stand for them here. word.dic
\* and tag.dic are id-then-entry, q2b.dic is character-then-replacement.
Line(fields) == JoinTab(fields) \o <<"\n">>

WordDicFile ==
    <<Line(<<<<"0">>, <<"a">>>>), Line(<<<<"1">>, <<"O", "O", "V">>>>)>>

Q2bDicFile == <<Line(<<<<"A">>, <<"a">>>>)>>

TagDicFile ==
    <<Line(<<<<"0">>, <<"n", "-", "B">>>>), Line(<<<<"1">>, <<"L", "-", "I">>>>),
      Line(<<<<"2">>, <<"O">>>>)>>

word_vocab == load_vocab(WordDicFile)

tag_vocab == load_vocab(TagDicFile)

q2b_vocab == load_vocab(Q2bDicFile)

\* dict(zip(self._tag_vocab.values(), self._tag_vocab.keys()))
id2tag_dict == {[key |-> e.val, val |-> e.key] : e \in tag_vocab}

\* str(index) for a tag id
Str(n) == <<<<"0", "1", "2", "3", "4", "5", "6", "7", "8", "9">>[n + 1]>>

\* The ids the model can return: BiGruCrf is built with len(self._tag_vocab) labels.
TagIds == 0..(Cardinality(tag_vocab) - 1)

\* ---- __init__
\* self.static_mode after __init__
InitStaticMode(static_mode_arg) == FALSE

\* if self.static_mode: self._get_inference_model() else: self._construct_model(model)
ConstructedModel(sm) == IF sm THEN "inference" ELSE "dygraph"

\* ---- self.kwargs
DefaultBatchSize == 1
DefaultMaxSeqLen == 64

KwargsSet ==
    {bs \cup ms : bs \in {{}, {[key |-> "batch_size", val |-> 2]}},
                  ms \in {{}, {[key |-> "max_seq_len", val |-> 2]}}}

batch_size_of(kw) == DictGet(kw, "batch_size", DefaultBatchSize)

max_seq_len_of(kw) == DictGet(kw, "max_seq_len", DefaultMaxSeqLen)

\* ---- the call arguments
\* An element of the input list is [kind, toks]: a str is the sequence of its
\* one-character strings; a list of str is the sequence of its strings, which
\* may be empty; an int has no tokens.
Chars == {"a", "A", "z"}

SeqsUpTo(S, n) == UNION {[1..k -> S] : k \in 0..n}

StrElems(n) == {[kind |-> "str", toks |-> t] : t \in SeqsUpTo({<<c>> : c \in Chars}, n)}

NonStrElems(n) ==
    {[kind |-> "list", toks |-> t] : t \in SeqsUpTo({<<"a">>, <<>>}, n)}
        \cup {[kind |-> "int", toks |-> <<>>]}

RECURSIVE SumSeq(_)
SumSeq(ns) == IF ns = <<>> THEN 0 ELSE Head(ns) + SumSeq(Tail(ns))

\* flat cut into consecutive pieces of the given lengths
Cut(flat, ns) ==
    [k \in 1..Len(ns) |->
        SubSeq(flat, SumSeq(SubSeq(ns, 1, k - 1)) + 1, SumSeq(SubSeq(ns, 1, k)))]

\* the lengths of the texts of a list of texts of size at most MaxSize
TextLens == {ns \in SeqsUpTo(0..MaxSize, MaxSize) : Len(ns) + SumSeq(ns) <= MaxSize}

\* the list of str whose texts are the pieces of flat
StrList(flat, ns) ==
    [kind |-> "list",
     elems |-> [k \in 1..Len(ns) |-> [kind |-> "str", toks |-> Cut(flat, ns)[k]]]]

\* a single str, a list holding a list of str or an int, and the other types
OtherArgs ==
    {[kind |-> "str", elems |-> <<e>>] : e \in StrElems(MaxSize - 1)}
        \cup {[kind |-> "list", elems |-> <<e>>] : e \in NonStrElems(MaxSize - 1)}
        \cup {[kind |-> k, elems |-> <<>>] : k \in {"int", "tuple", "dict", "None"}}

\* ---- _preprocess
\* if isinstance(inputs, str): inputs = [inputs]
\* if not isinstance(inputs, str) and not isinstance(inputs, list): raise TypeError
InputCheckAcceptsTuple(kind) ==
    LET wrapped == IF kind \in {"str", "tuple"} THEN "list" ELSE kind
    IN wrapped # "str" /\ wrapped # "list"

InputCheckFails(kind) ==
    LET wrapped == IF kind = "str" THEN "list" ELSE kind
    IN wrapped # "str" /\ wrapped # "list"

\* token = self._q2b_vocab.get(token, token)
Q2b(token) == IF DictHas(q2b_vocab, token) THEN DictAt(q2b_vocab, token).str ELSE token

\* oov_token_id = self._word_vocab.get("OOV")
oov_token_id == DictGet(word_vocab, <<"O", "O", "V">>, NoneVal)

\* the body of the inner loop of read: the id appended for one token
TokenIdNoQ2b(token) == DictGet(word_vocab, token, oov_token_id)

TokenId(token) == DictGet(word_vocab, Q2b(token), oov_token_id)

\* input_tokens = input_tokens[:max_seq_len]
Truncate(toks, max_seq_len) == Prefix(toks, max_seq_len)

\* read: the sample yielded for one element that can be sliced
ReadOne(e, max_seq_len) ==
    LET input_tokens == Truncate(e.toks, max_seq_len)
        ids == [k \in 1..Len(input_tokens) |-> TokenId(input_tokens[k])]
    IN [ids |-> ids, lens |-> Len(ids)]

\* input_tokens[:max_seq_len] raises TypeError on an int
ReadRaises(elems) == \E k \in 1..Len(elems) : elems[k].kind = "int"

\* _preprocess called with a as its first positional argument
PreprocessCall(a) ==
    /\ arg' = a
    /\ IF InputCheckFails(a.kind) THEN
            /\ pc' = "error"
            /\ err' = [type |-> "TypeError", site |-> "check"]
            /\ UNCHANGED outputs
       ELSE IF ReadRaises(a.elems) THEN
            /\ pc' = "error"
            /\ err' = [type |-> "TypeError", site |-> "read"]
            /\ UNCHANGED outputs
       ELSE /\ pc' = "preprocessed"
            /\ outputs' =
                 [text |-> a.elems,
                  ds |-> [k \in 1..Len(a.elems) |->
                             ReadOne(a.elems[k], max_seq_len_of(kwargs))],
                  batch_size |-> batch_size_of(kwargs),
                  built |-> TRUE, result |-> <<>>, lens |-> <<>>]
            /\ UNCHANGED err

Preprocess ==
    /\ pc = "ready"
    /\ \E ns \in TextLens, other \in BOOLEAN :
         IF other THEN ns = <<>> /\ \E a \in OtherArgs : PreprocessCall(a)
         ELSE \E flat \in [1..SumSeq(ns) -> {<<c>> : c \in Chars}] :
                 PreprocessCall(StrList(flat, ns))
    /\ UNCHANGED <<static_arg, static_mode, loaded, kwargs, branch, final_results>>
    /\ UNCHANGED vocabVars

\* ---- _run_model
\* paddle.io.DataLoader(batch_size=batch_size, shuffle=False): the number of
\* batches, the last one possibly short (drop_last is left False)
NumBatchesDropLast(n, bs) == n \div bs

NumBatches(n, bs) == (n + bs - 1) \div bs

\* the batch (one-based) that holds sample k (one-based)
BatchOf(k, bs) == ((k - 1) \div bs) + 1

RECURSIVE MaxLens(_, _, _)
MaxLens(ds, S, m) ==
    IF S = {} THEN m
    ELSE LET k == CHOOSE x \in S : TRUE
         IN MaxLens(ds, S \ {k}, Max(m, ds[k].lens))

\* Pad(axis=0, pad_val=0): the width of the batch that holds sample k
PaddedLen(ds, k, bs) ==
    MaxLens(ds, {j \in 1..Len(ds) : BatchOf(j, bs) = BatchOf(k, bs)}, 0)

\* the samples the data loader delivers, in order
Delivered(ds, bs) == SubSeq(ds, 1, Min(Len(ds), NumBatches(Len(ds), bs) * bs))

\* The tag ids the model can return for the delivered samples: any id at every
\* position of a sequence; past its end, where the input is padding, the filler.
RunModel ==
    /\ pc = "preprocessed"
    /\ LET bs == outputs.batch_size
           got == Delivered(outputs.ds, bs)
           lens == [k \in 1..Len(got) |-> got[k].lens]
       IN \E flat \in [1..SumSeq(lens) -> TagIds], filler \in TagIds :
            /\ outputs' =
                 [outputs EXCEPT
                    !.result = [k \in 1..Len(got) |->
                                   [p \in 1..PaddedLen(outputs.ds, k, bs) |->
                                       IF p <= lens[k] THEN Cut(flat, lens)[k][p]
                                       ELSE filler]],
                    !.lens = lens]
            /\ branch' = IF ~static_mode THEN "dygraph" ELSE "static"
    /\ pc' = "ran"
    /\ UNCHANGED <<static_arg, static_mode, loaded, kwargs, arg, final_results, err>>
    /\ UNCHANGED vocabVars

\* ---- _postprocess
\* tag.split('-')[0]
CoarseWhole(tag) == tag

Coarse(tag) == Split(tag, "-")[1]

\* tag.endswith("-B") or (tag == "O" and tags[ind - 1] != "O"), ind one-based
StartsSegmentEveryO(tags, ind) ==
    EndsWith(tags[ind], <<"-", "B">>) \/ tags[ind] = <<"O">>

StartsSegment(tags, ind) ==
    \/ EndsWith(tags[ind], <<"-", "B">>)
    \/ (tags[ind] = <<"O">> /\ tags[ind - 1] # <<"O">>)

\* parital_word = sent[ind], ind one-based
WordStartQ2b(sent, ind) == Q2b(sent[ind])

WordStart(sent, ind) == sent[ind]

\* the for loop over enumerate(tags), from position ind (one-based) on
RECURSIVE DecodeFrom(_, _, _, _)
DecodeFrom(sent, tags, ind, st) ==
    IF ind > Len(tags) THEN st
    ELSE IF st.parital_word = <<>> THEN
        DecodeFrom(sent, tags, ind + 1,
                   [sent_out |-> st.sent_out,
                    tags_out |-> Append(st.tags_out, Coarse(tags[ind])),
                    parital_word |-> WordStart(sent, ind)])
    ELSE IF StartsSegment(tags, ind) THEN
        DecodeFrom(sent, tags, ind + 1,
                   [sent_out |-> Append(st.sent_out, st.parital_word),
                    tags_out |-> Append(st.tags_out, Coarse(tags[ind])),
                    parital_word |-> WordStart(sent, ind)])
    ELSE
        DecodeFrom(sent, tags, ind + 1,
                   [st EXCEPT !.parital_word = st.parital_word \o sent[ind]])

\* if len(sent_out) < len(tags_out): sent_out.append(parital_word)
FlushNever(st) == st.sent_out

Flush(st) ==
    IF Len(st.sent_out) < Len(st.tags_out) THEN Append(st.sent_out, st.parital_word)
    ELSE st.sent_out

\* tags = [self._id2tag_dict[str(index)] for index in preds[sent_index][:lengths[sent_index]]]
ModelTags(pred, length) ==
    LET cut == Prefix(pred, length)
    IN [k \in 1..Len(cut) |-> DictAt(id2tag_dict, StrVal(Str(cut[k])))]

\* the body of the loop over sent_index: the record of one sentence
SingleResult(sent, pred, length) ==
    LET st == DecodeFrom(sent.toks, ModelTags(pred, length), 1,
                         [sent_out |-> <<>>, tags_out |-> <<>>, parital_word |-> <<>>])
    IN [text |-> sent, segs |-> Flush(st), tags |-> st.tags_out]

Postprocess ==
    /\ pc = "ran"
    /\ final_results' =
         [i \in 1..Len(outputs.lens) |->
             SingleResult(outputs.text[i], outputs.result[i], outputs.lens[i])]
    /\ pc' = "done"
    /\ UNCHANGED <<static_arg, static_mode, loaded, kwargs, arg, outputs, branch, err>>
    /\ UNCHANGED vocabVars

VocabIdle ==
    /\ fin = <<>>
    /\ lineNo = 0
    /\ vstate = VocabStart
    /\ vpc = "idle"
    /\ vret = {}

\* the task as __init__ leaves it, for any static_mode argument and kwargs
Init ==
    /\ static_arg \in BOOLEAN
    /\ static_mode = InitStaticMode(static_arg)
    /\ loaded = ConstructedModel(static_mode)
    /\ kwargs \in KwargsSet
    /\ arg = [kind |-> "None", elems |-> <<>>]
    /\ pc = "ready"
    /\ outputs = NoOutputs
    /\ branch = "none"
    /\ final_results = <<>>
    /\ err = NoErr
    /\ VocabIdle

Next == Preprocess \/ RunModel \/ Postprocess

Spec == Init /\ [][Next]_vars

\* ================================================================== claims
\* ---- what the claims speak of
IsStr(e) == e.kind = "str"

\* the characters of a list of strings, in order
RECURSIVE Flatten(_)
Flatten(ws) == IF ws = <<>> THEN <<>> ELSE Head(ws) \o Flatten(Tail(ws))

\* the tag the model gave to position p (one-based) of sentence i
TagAt(i, p) == DictAt(id2tag_dict, StrVal(Str(outputs.result[i][p])))

\* the position (one-based) of the first character of segment k of a record
\* whose tokens are single characters
FirstPos(rec, k) == 1 + Len(Flatten(SubSeq(rec.segs, 1, k - 1)))

\* the part of a tag before its first '-'
BeforeDash(tag) ==
    LET dashes == {k \in 1..Len(tag) : tag[k] = "-"}
    IN IF dashes = {} THEN tag
       ELSE SubSeq(tag, 1, (CHOOSE k \in dashes : \A j \in dashes : k <= j) - 1)

\* max_seq_len as the call sees it
SeqLimit ==
    IF \E e \in kwargs : e.key = "max_seq_len"
    THEN (CHOOSE e \in kwargs : e.key = "max_seq_len").val
    ELSE 64

AllStr(a) == a.kind \in {"str", "list"} /\ \A k \in 1..Len(a.elems) : IsStr(a.elems[k])

Called == pc \notin {"ready", "idle"}

\* C1: in every record _postprocess returns for an input text (a str, the empty
\* one included), whatever tags the model gave, segs and tags have the same length.
C1_SegsTagsSameLength ==
    \A i \in 1..Len(final_results) :
        IsStr(final_results[i].text) =>
            Len(final_results[i].segs) = Len(final_results[i].tags)

\* C1 witness: a finished call with a record of at least two segments and a
\* record of the empty string.
C1_Witness ==
    /\ pc = "done"
    /\ \E i \in 1..Len(final_results) :
        IsStr(final_results[i].text) /\ Len(final_results[i].segs) >= 2
    /\ \E i \in 1..Len(final_results) :
        /\ final_results[i].text = [kind |-> "str", toks |-> <<>>]
        /\ final_results[i].segs = <<>>

\* C2: a call on n texts (a single str being one text) never raises, and returns
\* n records in input order whose text fields are the input texts themselves,
\* whatever batch_size is.
C2_OneRecordPerText ==
    (Called /\ AllStr(arg)) =>
        /\ pc # "error"
        /\ pc = "done" =>
            /\ Len(final_results) = Len(arg.elems)
            /\ \A i \in 1..Len(final_results) : final_results[i].text = arg.elems[i]

\* C2 witness: three texts in batches of two (the last batch is short), one of
\* them holding a character the q2b table rewrites.
C2_Witness ==
    /\ pc = "done"
    /\ arg.kind = "list"
    /\ Len(final_results) = 3
    /\ outputs.batch_size = 2
    /\ \E i \in 1..3 : final_results[i].text.toks = <<<<"A">>>>

\* C3: the tag of each segment is the model tag of the segment's first character
\* cut at its first '-'.
C3_TagIsCoarseTagOfFirstChar ==
    \A i \in 1..Len(final_results) :
        IsStr(final_results[i].text) =>
            \A k \in 1..Len(final_results[i].tags) :
                final_results[i].tags[k] =
                    BeforeDash(TagAt(i, FirstPos(final_results[i], k)))

\* C3 witness: a two-character segment whose characters are tagged n-B and L-I
\* and whose tag is n.
C3_Witness ==
    /\ pc = "done"
    /\ \E i \in 1..Len(final_results) :
        /\ IsStr(final_results[i].text)
        /\ Len(final_results[i].segs) = 1
        /\ Len(final_results[i].segs[1]) = 2
        /\ TagAt(i, 1) = <<"n", "-", "B">>
        /\ TagAt(i, 2) = <<"L", "-", "I">>
        /\ final_results[i].tags = <<<<"n">>>>

\* C4: an argument that is neither a str nor a list makes _preprocess raise
\* TypeError at its input check, with no dataset built, no model run, no output.
C4_BadTypeRaisesTypeError ==
    (Called /\ arg.kind \notin {"str", "list"}) =>
        /\ pc = "error"
        /\ err = [type |-> "TypeError", site |-> "check"]
        /\ outputs = NoOutputs
        /\ branch = "none"
        /\ final_results = <<>>

\* C4 witness: the call was made with a tuple and has raised.
C4_Witness == pc = "error" /\ arg.kind = "tuple"

\* C5 (the claim as stated): a list with an element that is not a str is
\* rejected with TypeError.
C5_NonStrElementRejected ==
    (Called /\ arg.kind = "list" /\ \E k \in 1..Len(arg.elems) : ~IsStr(arg.elems[k])) =>
        (pc = "error" /\ err.type = "TypeError")

\* C6 (the claim as stated): the static_mode argument decides which model
\* __init__ prepares and which branch _run_model takes.
C6_StaticModeArgControlsMode ==
    pc \in {"ran", "done"} =>
        /\ loaded = (IF static_arg THEN "inference" ELSE "dygraph")
        /\ branch = (IF static_arg THEN "static" ELSE "dygraph")

\* C7: for a text of non-empty characters, the segments start at position 0 and
\* at exactly the positions ind > 0 whose tag ends with -B, or is O while the tag
\* before is not O; the segments cover the tagged characters.
C7_SegmentStarts ==
    \A i \in 1..Len(final_results) :
        LET rec == final_results[i]
            n == outputs.lens[i]
            endsB(t) == Len(t) >= 2 /\ t[Len(t) - 1] = "-" /\ t[Len(t)] = "B"
        IN (\A p \in 1..Len(rec.text.toks) : Len(rec.text.toks[p]) = 1) =>
            /\ Len(Flatten(rec.segs)) = n
            /\ {FirstPos(rec, k) : k \in 1..Len(rec.segs)} =
                 {p \in 1..n : \/ p = 1
                               \/ endsB(TagAt(i, p))
                               \/ (TagAt(i, p) = <<"O">> /\ TagAt(i, p - 1) # <<"O">>)}

\* C7 witness: three characters tagged O, O, L-I form one segment.
C7_Witness ==
    /\ pc = "done"
    /\ \E i \in 1..Len(final_results) :
        /\ outputs.lens[i] = 3
        /\ TagAt(i, 1) = <<"O">> /\ TagAt(i, 2) = <<"O">>
        /\ TagAt(i, 3) = <<"L", "-", "I">>
        /\ Len(final_results[i].segs) = 1

\* C8: the segs of a record, concatenated, are the first min(len(text),
\* max_seq_len) characters of the text as given, and no segment is empty.
C8_SegsSpellThePrefix ==
    \A i \in 1..Len(final_results) :
        LET rec == final_results[i] IN
        IsStr(rec.text) =>
            /\ Flatten(rec.segs) =
                 Flatten(SubSeq(rec.text.toks, 1,
                                IF Len(rec.text.toks) < SeqLimit
                                THEN Len(rec.text.toks) ELSE SeqLimit))
            /\ \A k \in 1..Len(rec.segs) : rec.segs[k] # <<>>

\* C8 witness: a three-character text starting with a character the q2b table
\* rewrites, cut to max_seq_len = 2.
C8_Witness ==
    /\ pc = "done"
    /\ SeqLimit = 2
    /\ \E i \in 1..Len(final_results) :
        /\ Len(final_results[i].text.toks) = 3
        /\ final_results[i].text.toks[1] = <<"A">>
        /\ Len(final_results[i].segs) = 2

\* C9: the reader yields, for each text, min(len(text), max_seq_len) ids and that
\* length; the k-th id is the word-vocabulary entry of the q2b replacement of the
\* k-th character (of the character itself when q2b has none), or the entry of
\* OOV when the vocabulary does not hold it.
C9_ReaderIds ==
    outputs.built =>
        \A i \in 1..Len(outputs.ds) :
            LET toks == outputs.text[i].toks
                n == IF Len(toks) < SeqLimit THEN Len(toks) ELSE SeqLimit
                rep(c) == IF \E e \in q2b_vocab : e.key = c
                          THEN (CHOOSE e \in q2b_vocab : e.key = c).val.str ELSE c
                entry(w) == (CHOOSE e \in word_vocab : e.key = w).val
                id(c) == IF \E e \in word_vocab : e.key = rep(c)
                         THEN entry(rep(c)) ELSE entry(<<"O", "O", "V">>)
            IN IsStr(outputs.text[i]) =>
                /\ Len(outputs.ds[i].ids) = n
                /\ outputs.ds[i].lens = n
                /\ \A k \in 1..n : outputs.ds[i].ids[k] = id(toks[k])

\* C9 witness: with no max_seq_len in kwargs, the text "aAz" has been read as the
\* ids of "a", "a" and "OOV".
C9_Witness ==
    /\ pc = "preprocessed"
    /\ ~ \E e \in kwargs : e.key = "max_seq_len"
    /\ \E i \in 1..Len(outputs.ds) :
        /\ outputs.text[i].toks = <<<<"a">>, <<"A">>, <<"z">>>>
        /\ outputs.ds[i].ids = <<StrVal(<<"0">>), StrVal(<<"0">>), StrVal(<<"1">>)>>

\* ---- load_vocab
\* the fields of line k (one-based) of the file
Terms(k) == Split(Strip(fin[k], "\n"), "\t")

\* the entry line k stands for, the two-field lines all read in the orientation
\* of the first of them
EntryOf(k) ==
    LET two == {j \in 1..Len(fin) : Len(Terms(j)) = 2}
        first == CHOOSE j \in two : \A x \in two : j <= x
        valueFirst == IsDigit(Terms(first)[1])
    IN IF Len(Terms(k)) = 1 THEN [key |-> Terms(k)[1], val |-> IntVal(k - 1)]
       ELSE IF valueFirst THEN [key |-> Terms(k)[2], val |-> StrVal(Terms(k)[1])]
       ELSE [key |-> Terms(k)[1], val |-> StrVal(Terms(k)[2])]

\* C10: the orientation is fixed by the first two-field line and used for every
\* later one; a one-field line maps its field to its zero-based line number; a
\* line of three or more fields raises ValueError and nothing is returned.
C10_LoadVocab ==
    LET bad == {k \in 1..Len(fin) : Len(Terms(k)) >= 3} IN
    /\ vpc = "returned" =>
        /\ bad = {}
        /\ vret = {EntryOf(k) : k \in {j \in 1..Len(fin) :
                        \A x \in (j + 1)..Len(fin) : EntryOf(x).key # EntryOf(j).key}}
    /\ vpc = "ValueError" => (bad # {} /\ vret = {})
    /\ (vpc = "reading" /\ lineNo = Len(fin)) => bad = {}

\* C10 witness: a vocabulary was returned from a file whose first line is
\* key-then-value and whose second line starts with an all-digit field.
C10_Witness ==
    /\ vpc = "returned"
    /\ Len(fin) = 2
    /\ Len(Terms(1)) = 2 /\ ~IsDigit(Terms(1)[1])
    /\ Len(Terms(2)) = 2 /\ IsDigit(Terms(2)[1])

====
